---- MODULE Spec2Model ----
(***************************************************************************)
(* Concurrency-control layer of lanzou-gui (src/workers.py, src/tools.py). *)
(*                                                                         *)
(* Every worker of workers.py is a QThread object with its own fields; the *)
(* objects share no state.  A behaviour of this model exercises one object *)
(* (obj, chosen in Init): its caller-side methods, which the GUI thread    *)
(* runs one at a time, the steps of its run() in the worker's own thread,  *)
(* and, for the DownloadManager, the Downloader threads it spawns and the  *)
(* signals they queue for the GUI thread.                                  *)
(*                                                                         *)
(* Library semantics the model relies on (PyQt5 / CPython):                *)
(*   - QThread.start() does nothing while the thread is running;           *)
(*   - QThread.isRunning() is true from start() until the thread ends;     *)
(*   - a signal emitted in a worker thread and connected to a slot of an   *)
(*     object living in the GUI thread is queued and runs later in the GUI *)
(*     thread; signals of one sender are delivered in emission order;      *)
(*   - a lambda reads its free variables when it is called;                *)
(*   - an exception that leaves run() ends the thread where it is raised.  *)
(***************************************************************************)
EXTENDS Integers, Sequences, FiniteSets, TLC

(* ------------------------------- bounds ------------------------------- *)
\* caller-side calls (set_values, add_task, ...) made in one behaviour
MaxCalls == 3
\* activations of run() that one object can hold side by side in the model
NThreads == 2

VARIABLES
  obj,        \* the worker object this behaviour exercises
  calls,      \* number of caller-side calls made so far
  is_work,    \* self._is_work
  mutex,      \* self._mutex: 0 when free, else the activation holding it
  pc,         \* position of each activation of run(); "off": no such thread
  loc,        \* local variables of each activation of run()
  fld,        \* the argument fields of the object, as set_values leaves them
  out,        \* names of the result and status signals emitted so far and, for
              \* the LoginLuncher, of the login calls made on the backend
  escaped,    \* an exception has left run()
  startArgs,  \* history: fld as left by the last submission made while Idle
  affected,   \* history: the in-flight run read a field a later call wrote
  rejected,   \* history: number of submissions made while the guard was Busy
  tasks,      \* self._tasks of a dispatcher: the pending jobs, in insertion order
  furl,       \* UploadWorker._furl
  task,       \* UploadWorker._task
  shown,      \* the mapping last sent to the display layer by update.emit
  pendingSubs, \* history: per key, the submissions since it last left self._tasks
  thread,     \* DownloadManager._thread: the ceiling
  count,      \* DownloadManager._count
  downloaders, \* DownloadManager.downloaders: url -> Downloader object
  dl_ing,     \* DownloadManager._dl_ing: url -> DlJob, the live snapshot
  dls,        \* the Downloader objects created so far, with their queued signals
              \* and, as history, the finished notifications handled for each
  cell,       \* per frame of DownloadManager.run, its local `url` (read by the lambdas)
  gui,        \* what the caller's thread is in the middle of
  hist,       \* history of the DownloadManager: keys stopped, deleted, dispatched,
              \* whether the ceiling was changed, whether a KeyError was raised
              \* on the caller's thread (by stop_task or by a slot)
  sample      \* a Downloader used by itself: the progress sample the backend
              \* hands to its callback, then what the callback made of it

\* the variables of the single-action workers and those of the dispatchers
swVars == <<fld, startArgs, affected, rejected>>
upVars == <<furl, task>>
dmVars == <<thread, count, downloaders, dl_ing, dls, cell, gui, hist>>
dispVars == <<tasks, shown, pendingSubs, upVars, dmVars>>

vars == <<obj, sample, calls, is_work, mutex, pc, loc, fld, out, escaped,
          startArgs, affected, rejected, dispVars>>

Acts == 1..NThreads

\* result classes of one backend call: LanZouCloud.SUCCESS, another result
\* code, TimeoutError raised, any other exception raised
Outcomes == {"ok", "declined", "timeout", "error"}

SingleWorkers ==
  {"LogoutWorker", "SetPwdWorker", "RenameMkdirWorker", "ListRefresher", "GetMoreInfoWorker",
   "CheckUpdateWorker"}

NoLoc == [x |-> 0]

\* a start() that begins a new thread at every call
QThreadStartAlways(p) ==
  IF \E a \in Acts : p[a] = "off"
  THEN [p EXCEPT ![CHOOSE a \in Acts : p[a] = "off" /\ \A b \in Acts : p[b] = "off" => a <= b] = "check"]
  ELSE p

\* QThread.start(): begins run() in the object's thread; does nothing when
\* the thread is already running
QThreadStart(p) ==
  IF \E a \in Acts : p[a] # "off" THEN p ELSE [p EXCEPT ![1] = "check"]

\* history bookkeeping of one submission that leaves the fields as f
Submit(f) ==
  /\ calls < MaxCalls
  /\ calls' = calls + 1
  /\ rejected' = IF is_work THEN rejected + 1 ELSE rejected
  /\ startArgs' = IF is_work THEN startArgs ELSE f

\* the workers whose run() has an else branch that reports "running in the
\* background, retry later"
HasElse ==
  obj \in {"LogoutWorker", "SetPwdWorker", "RenameMkdirWorker", "GetMoreInfoWorker"}

\* the guard test at the top of run()
GuardOpen ==
  /\ ~is_work
  /\ (obj = "GetMoreInfoWorker" => fld.infos # "none")

\* run(): "if not self._is_work:" and its else branch
RunCheck(a) ==
  /\ obj # "LoginLuncher"
  /\ pc[a] = "check"
  /\ IF GuardOpen
     THEN /\ pc' = [pc EXCEPT ![a] = "lock"]
          /\ UNCHANGED out
     ELSE /\ pc' = [pc EXCEPT ![a] = "off"]
          /\ out' = CASE HasElse -> out \cup {"msg:busy"}
                       [] obj = "CheckUpdateWorker" /\ fld.manual -> out \cup {"infos:busy"}
                       [] OTHER -> out
  /\ UNCHANGED <<dispVars, obj, sample, calls, is_work, mutex, loc, fld, escaped, startArgs, affected, rejected>>

\* run(): "self._mutex.lock(); self._is_work = True"
RunLock(a) ==
  /\ pc[a] = "lock"
  /\ mutex = 0
  /\ mutex' = a
  /\ is_work' = TRUE
  /\ pc' = [pc EXCEPT ![a] = "body"]
  /\ loc' = [loc EXCEPT ![a] = IF obj = "DownloadManager"
                                THEN [url |-> "", task |-> NoLoc, c |-> 0, frame |-> 0]
                                ELSE NoLoc]
  /\ UNCHANGED <<dispVars, obj, sample, calls, fld, out, escaped, startArgs, affected, rejected>>

\* run(): "self._is_work = False; self._mutex.unlock()" and the thread's end
RunRelease(a) ==
  /\ pc[a] = "release"
  /\ is_work' = FALSE
  /\ mutex' = 0
  /\ pc' = [pc EXCEPT ![a] = "off"]
  /\ loc' = [loc EXCEPT ![a] = NoLoc]
  /\ fld' = IF obj = "GetMoreInfoWorker" THEN [fld EXCEPT !.url = "", !.pwd = ""] ELSE fld
  /\ UNCHANGED <<dispVars, obj, sample, calls, out, escaped, startArgs, affected, rejected>>

(* ---------------------------- LogoutWorker ---------------------------- *)
LogoutInit == [update_ui |-> TRUE]

\* LogoutWorker.set_values
Logout_set_values(update_ui) ==
  /\ obj = "LogoutWorker"
  /\ Submit([update_ui |-> update_ui])
  /\ fld' = [update_ui |-> update_ui]
  /\ pc' = QThreadStart(pc)
  /\ UNCHANGED <<dispVars, obj, sample, is_work, mutex, loc, out, escaped, affected>>

\* LogoutWorker.run: self._disk.logout() is called
LogoutCall(a) ==
  /\ obj = "LogoutWorker"
  /\ pc[a] = "body"
  /\ pc' = [pc EXCEPT ![a] = "io"]
  /\ UNCHANGED <<dispVars, obj, sample, calls, is_work, mutex, loc, fld, out, escaped, startArgs, affected, rejected>>

\* LogoutWorker.run: the call returns or raises
LogoutReturn(a, r) ==
  /\ obj = "LogoutWorker"
  /\ pc[a] = "io"
  /\ out' = out \cup
       CASE r = "ok" -> (IF fld.update_ui THEN {"successed"} ELSE {}) \cup {"msg:logout_done"}
         [] r = "declined" -> {"msg:failed"}
         [] r = "timeout" -> {"msg:timeout"}
         [] OTHER -> {}
  /\ affected' = (affected \/ (r = "ok" /\ fld.update_ui # startArgs.update_ui))
  /\ pc' = [pc EXCEPT ![a] = "release"]
  /\ UNCHANGED <<dispVars, obj, sample, calls, is_work, mutex, loc, fld, escaped, startArgs, rejected>>

(* ----------------------------- LoginLuncher --------------------------- *)
\* LoginLuncher has no busy flag and no mutex: run() starts with the try.
LoginInit == [username |-> "", password |-> "", cookie |-> "none"]

\* the arguments a caller passes: name and password, the same with a cookie,
\* nothing, a cookie alone
LoginArgs ==
  { [username |-> "u", password |-> "p", cookie |-> "none"],
    [username |-> "u", password |-> "p", cookie |-> "c"],
    [username |-> "", password |-> "", cookie |-> "none"],
    [username |-> "", password |-> "", cookie |-> "c"] }

\* LoginLuncher.set_values; a submission counts as made while Busy when the
\* thread of an earlier one is still running
Login_set_values(f) ==
  /\ obj = "LoginLuncher"
  /\ calls < MaxCalls
  /\ calls' = calls + 1
  /\ LET busy == \E a \in Acts : pc[a] # "off" IN
       /\ rejected' = IF busy THEN rejected + 1 ELSE rejected
       /\ startArgs' = IF busy THEN startArgs ELSE f
  /\ fld' = f
  /\ pc' = QThreadStart(pc)
  /\ UNCHANGED <<dispVars, obj, sample, is_work, mutex, loc, out, escaped, affected>>

\* LoginLuncher.run from "if (not self.username or not self.password) and not
\* self.cookie" on: the failure message, or the call of login
LoginByPassword(a) ==
  IF (fld.username = "" \/ fld.password = "") /\ fld.cookie = "none"
  THEN /\ out' = out \cup {"code:no_user"}
       /\ pc' = [pc EXCEPT ![a] = "off"]
  ELSE /\ out' = out \cup {"call:login"}
       /\ pc' = [pc EXCEPT ![a] = "io_login"]

\* LoginLuncher.run: "if self.cookie:" and the first backend call
LoginBegin(a) ==
  /\ obj = "LoginLuncher"
  /\ pc[a] = "check"
  /\ affected' = (affected \/ fld # startArgs)
  /\ IF fld.cookie # "none"
     THEN /\ out' = out \cup {"call:login_by_cookie"}
          /\ pc' = [pc EXCEPT ![a] = "io_cookie"]
     ELSE LoginByPassword(a)
  /\ UNCHANGED <<dispVars, obj, sample, calls, is_work, mutex, loc, fld, escaped, startArgs, rejected>>

\* LoginLuncher.run: login_by_cookie returns or raises
LoginCookieReturn(a, r) ==
  /\ obj = "LoginLuncher"
  /\ pc[a] = "io_cookie"
  /\ CASE r = "ok" -> /\ out' = out \cup {"code:cookie_ok"}
                      /\ pc' = [pc EXCEPT ![a] = "off"]
       [] r = "declined" -> LoginByPassword(a)
       [] r = "timeout" -> /\ out' = out \cup {"code:timeout"}
                           /\ pc' = [pc EXCEPT ![a] = "off"]
       [] OTHER -> /\ pc' = [pc EXCEPT ![a] = "off"]
                   /\ UNCHANGED out
  /\ affected' = (affected \/ (r = "declined" /\ fld # startArgs))
  /\ UNCHANGED <<dispVars, obj, sample, calls, is_work, mutex, loc, fld, escaped, startArgs, rejected>>

\* LoginLuncher.run: login returns or raises
LoginReturn(a, r) ==
  /\ obj = "LoginLuncher"
  /\ pc[a] = "io_login"
  /\ out' = out \cup
       CASE r = "ok" -> {"code:ok", "update_cookie"}
         [] r = "declined" -> {"code:failed", "update_cookie:none"}
         [] r = "timeout" -> {"code:timeout"}
         [] OTHER -> {}
  /\ pc' = [pc EXCEPT ![a] = "off"]
  /\ UNCHANGED <<dispVars, obj, sample, calls, is_work, mutex, loc, fld, escaped, startArgs, affected, rejected>>

(* ---------------------------- SetPwdWorker ---------------------------- *)
\* the infos lists a caller passes: none, a code too short, a folder code too
\* long, a file code too long, a file and a folder with fitting codes
SetPwdInfos ==
  { <<>>,
    <<[is_file |-> TRUE, len |-> 1]>>,
    <<[is_file |-> FALSE, len |-> 13]>>,
    <<[is_file |-> TRUE, len |-> 7]>>,
    <<[is_file |-> TRUE, len |-> 2], [is_file |-> FALSE, len |-> 7]>> }

WorkIds == {1, 2}

SetPwdInit == [infos |-> <<>>, work_id |-> -1]

\* SetPwdWorker.run: the length test on a new extraction code
PwdLenBad(item) ==
  IF item.is_file
  THEN (2 > item.len /\ item.len >= 1) \/ item.len > 6
  ELSE (2 > item.len /\ item.len >= 1) \/ item.len > 12

\* SetPwdWorker.set_values
SetPwd_set_values(infos, work_id) ==
  /\ obj = "SetPwdWorker"
  /\ Submit([infos |-> infos, work_id |-> work_id])
  /\ fld' = [infos |-> infos, work_id |-> work_id]
  /\ pc' = QThreadStart(pc)
  /\ UNCHANGED <<dispVars, obj, sample, is_work, mutex, loc, out, escaped, affected>>

\* SetPwdWorker.run: the flags are cleared and the loop over self.infos begins
SetPwdBegin(a) ==
  /\ obj = "SetPwdWorker"
  /\ pc[a] = "body"
  /\ loc' = [loc EXCEPT ![a] = [items |-> fld.infos, i |-> 1, has_file |-> FALSE,
                                 has_folder |-> FALSE, failed |-> FALSE]]
  /\ affected' = (affected \/ fld.infos # startArgs.infos)
  /\ pc' = [pc EXCEPT ![a] = "item"]
  /\ UNCHANGED <<dispVars, obj, sample, calls, is_work, mutex, fld, out, escaped, startArgs, rejected>>

\* SetPwdWorker.run: one item of the loop, up to the call of set_passwd; after
\* the last item the result message and the update signal
SetPwdItem(a) ==
  /\ obj = "SetPwdWorker"
  /\ pc[a] = "item"
  /\ LET l == loc[a] IN
     IF l.i > Len(l.items)
     THEN /\ out' = out \cup {IF l.failed THEN "msg:pwd_failed" ELSE "msg:pwd_ok", "update"}
          /\ affected' = (affected \/ fld.work_id # startArgs.work_id)
          /\ pc' = [pc EXCEPT ![a] = "release"]
          /\ UNCHANGED loc
     ELSE LET item == l.items[l.i]
              l2 == [l EXCEPT !.has_file = l.has_file \/ item.is_file,
                              !.has_folder = l.has_folder \/ ~item.is_file]
          IN  /\ loc' = [loc EXCEPT ![a] = l2]
              /\ UNCHANGED affected
              /\ IF PwdLenBad(item)
                 THEN /\ out' = out \cup {"msg:pwd_len"}
                      /\ pc' = [pc EXCEPT ![a] = "release"]
                 ELSE /\ UNCHANGED out
                      /\ pc' = [pc EXCEPT ![a] = "io"]
  /\ UNCHANGED <<dispVars, obj, sample, calls, is_work, mutex, fld, escaped, startArgs, rejected>>

\* SetPwdWorker.run: set_passwd returns or raises
SetPwdReturn(a, r) ==
  /\ obj = "SetPwdWorker"
  /\ pc[a] = "io"
  /\ LET l == loc[a] IN
     CASE r = "ok" ->
            /\ loc' = [loc EXCEPT ![a] = [l EXCEPT !.i = l.i + 1]]
            /\ pc' = [pc EXCEPT ![a] = "item"]
            /\ UNCHANGED out
       [] r = "declined" ->
            /\ loc' = [loc EXCEPT ![a] = [l EXCEPT !.i = l.i + 1, !.failed = TRUE]]
            /\ pc' = [pc EXCEPT ![a] = "item"]
            /\ UNCHANGED out
       [] r = "timeout" ->
            /\ out' = out \cup {"msg:timeout"}
            /\ pc' = [pc EXCEPT ![a] = "release"]
            /\ UNCHANGED loc
       [] OTHER ->
            /\ pc' = [pc EXCEPT ![a] = "release"]
            /\ UNCHANGED <<loc, out>>
  /\ UNCHANGED <<dispVars, obj, sample, calls, is_work, mutex, fld, escaped, startArgs, affected, rejected>>

(* -------------------------- RenameMkdirWorker ------------------------- *)
\* self.infos: None (or empty) as "none"; ('new', name, desc); (kind, items),
\* each item a file or a folder, the folder with or without a new name
RenameInfos ==
  { [action |-> "none", name |-> "", items |-> <<>>],
    [action |-> "new", name |-> "a", items |-> <<>>],
    [action |-> "file", name |-> "", items |-> <<[is_file |-> TRUE, has_name |-> TRUE]>>],
    [action |-> "folder", name |-> "",
     items |-> <<[is_file |-> FALSE, has_name |-> TRUE], [is_file |-> FALSE, has_name |-> FALSE]>>] }

FolderLists == {{}, {"a"}}

RenameInit ==
  [infos |-> [action |-> "none", name |-> "", items |-> <<>>], work_id |-> -1, folder_list |-> {}]

\* RenameMkdirWorker.set_values
Rename_set_values(infos, work_id, folder_list) ==
  /\ obj = "RenameMkdirWorker"
  /\ Submit([infos |-> infos, work_id |-> work_id, folder_list |-> folder_list])
  /\ fld' = [infos |-> infos, work_id |-> work_id, folder_list |-> folder_list]
  /\ pc' = QThreadStart(pc)
  /\ UNCHANGED <<dispVars, obj, sample, is_work, mutex, loc, out, escaped, affected>>

\* RenameMkdirWorker.run: "action = self.infos[0]", which is outside the try,
\* and the branch up to the first backend call
RenameBegin(a) ==
  /\ obj = "RenameMkdirWorker"
  /\ pc[a] = "body"
  /\ affected' = (affected \/ fld.infos # startArgs.infos)
  /\ CASE fld.infos.action = "none" ->
            \* TypeError / IndexError raised outside the try: run() is left
            /\ escaped' = TRUE
            /\ pc' = [pc EXCEPT ![a] = "off"]
            /\ UNCHANGED <<loc, out>>
       [] fld.infos.action = "new" ->
            /\ UNCHANGED <<escaped, loc>>
            /\ IF fld.infos.name \in fld.folder_list
               THEN /\ out' = out \cup {"msg:folder_exists"}
                    /\ pc' = [pc EXCEPT ![a] = "release"]
               ELSE /\ UNCHANGED out
                    /\ pc' = [pc EXCEPT ![a] = "io"]
       [] OTHER ->
            /\ loc' = [loc EXCEPT ![a] = [items |-> fld.infos.items, i |-> 1, has_file |-> FALSE,
                                           has_folder |-> FALSE, failed |-> FALSE]]
            /\ pc' = [pc EXCEPT ![a] = "item"]
            /\ UNCHANGED <<escaped, out>>
  /\ UNCHANGED <<dispVars, obj, sample, calls, is_work, mutex, fld, startArgs, rejected>>

\* RenameMkdirWorker.run: mkdir returns or raises
RenameMkdirReturn(a, r) ==
  /\ obj = "RenameMkdirWorker"
  /\ pc[a] = "io"
  /\ CASE r = "ok" ->
            /\ out' = out \cup {"update", "msg:mkdir_ok"}
            /\ affected' = (affected \/ fld.work_id # startArgs.work_id)
       [] r = "declined" ->
            /\ out' = out \cup {"msg:mkdir_failed"}
            /\ UNCHANGED affected
       [] r = "timeout" ->
            /\ out' = out \cup {"msg:timeout"}
            /\ UNCHANGED affected
       [] OTHER -> UNCHANGED <<out, affected>>
  /\ pc' = [pc EXCEPT ![a] = "release"]
  /\ UNCHANGED <<dispVars, obj, sample, calls, is_work, mutex, loc, fld, escaped, startArgs, rejected>>

\* RenameMkdirWorker.run: one entry of the rename loop up to its backend call
\* (a folder without a new name reads the misspelt attribute info.nmae, and
\* the AttributeError is caught and logged); after the last entry the update
\* signal and the result message
RenameItem(a) ==
  /\ obj = "RenameMkdirWorker"
  /\ pc[a] = "item"
  /\ LET l == loc[a] IN
     IF l.i > Len(l.items)
     THEN /\ out' = out \cup {"update", IF l.failed THEN "msg:had_error" ELSE "msg:rename_ok"}
          /\ affected' = (affected \/ fld.work_id # startArgs.work_id)
          /\ pc' = [pc EXCEPT ![a] = "release"]
     ELSE /\ UNCHANGED <<out, affected>>
          /\ IF ~l.items[l.i].is_file /\ ~l.items[l.i].has_name
             THEN pc' = [pc EXCEPT ![a] = "release"]
             ELSE pc' = [pc EXCEPT ![a] = "io_item"]
  /\ UNCHANGED <<dispVars, obj, sample, calls, is_work, mutex, loc, fld, escaped, startArgs, rejected>>

\* RenameMkdirWorker.run: set_desc or _set_dir_info returns or raises
RenameItemReturn(a, r) ==
  /\ obj = "RenameMkdirWorker"
  /\ pc[a] = "io_item"
  /\ LET l == loc[a]
         f == l.items[l.i].is_file
     IN
     CASE r = "ok" ->
            /\ loc' = [loc EXCEPT ![a] = [l EXCEPT !.i = l.i + 1,
                                                    !.has_file = l.has_file \/ f,
                                                    !.has_folder = l.has_folder \/ ~f]]
            /\ pc' = [pc EXCEPT ![a] = "item"]
            /\ UNCHANGED out
       [] r = "declined" ->
            /\ loc' = [loc EXCEPT ![a] = [l EXCEPT !.i = l.i + 1, !.failed = TRUE]]
            /\ pc' = [pc EXCEPT ![a] = "item"]
            /\ UNCHANGED out
       [] r = "timeout" ->
            /\ out' = out \cup {"msg:timeout"}
            /\ pc' = [pc EXCEPT ![a] = "release"]
            /\ UNCHANGED loc
       [] OTHER ->
            /\ pc' = [pc EXCEPT ![a] = "release"]
            /\ UNCHANGED <<loc, out>>
  /\ UNCHANGED <<dispVars, obj, sample, calls, is_work, mutex, fld, escaped, startArgs, affected, rejected>>

(* ---------------------------- ListRefresher --------------------------- *)
ListInit == [fid |-> -1, r_files |-> TRUE, r_folders |-> TRUE, r_path |-> TRUE]

ListArgs == [fid : WorkIds, r_files : BOOLEAN, r_folders : BOOLEAN, r_path : {TRUE}]

\* ListRefresher.set_values: the fields are written, and the thread started,
\* only when the busy flag is clear
List_set_values(f) ==
  /\ obj = "ListRefresher"
  /\ Submit(f)
  /\ IF ~is_work
     THEN /\ fld' = f
          /\ pc' = QThreadStart(pc)
          /\ UNCHANGED out
     ELSE /\ out' = out \cup {"msg:busy"}
          /\ UNCHANGED <<fld, pc>>
  /\ UNCHANGED <<dispVars, obj, sample, is_work, mutex, loc, escaped, affected>>

\* ListRefresher.run: emit_infos['r'] is filled from the fields and the first
\* selected listing is requested
ListBegin(a) ==
  /\ obj = "ListRefresher"
  /\ pc[a] = "body"
  /\ affected' = (affected \/ fld # startArgs)
  /\ pc' = [pc EXCEPT ![a] = IF fld.r_files THEN "io_files"
                             ELSE IF fld.r_folders THEN "io_dirs" ELSE "done"]
  /\ UNCHANGED <<dispVars, obj, sample, calls, is_work, mutex, loc, fld, out, escaped, startArgs, rejected>>

\* ListRefresher.run: get_file_list returns or raises
ListFilesReturn(a, r) ==
  /\ obj = "ListRefresher"
  /\ pc[a] = "io_files"
  /\ r # "declined"
  /\ affected' = (affected \/ fld # startArgs)
  /\ CASE r = "ok" ->
            /\ pc' = [pc EXCEPT ![a] = IF fld.r_folders THEN "io_dirs" ELSE "done"]
            /\ UNCHANGED out
       [] r = "timeout" ->
            /\ out' = out \cup {"msg:timeout"}
            /\ pc' = [pc EXCEPT ![a] = "release"]
       [] OTHER ->
            /\ out' = out \cup {"msg:unknown_error"}
            /\ pc' = [pc EXCEPT ![a] = "release"]
  /\ UNCHANGED <<dispVars, obj, sample, calls, is_work, mutex, loc, fld, escaped, startArgs, rejected>>

\* ListRefresher.run: get_dir_list returns or raises
ListDirsReturn(a, r) ==
  /\ obj = "ListRefresher"
  /\ pc[a] = "io_dirs"
  /\ r # "declined"
  /\ CASE r = "ok" ->
            /\ pc' = [pc EXCEPT ![a] = "done"]
            /\ UNCHANGED out
       [] r = "timeout" ->
            /\ out' = out \cup {"msg:timeout"}
            /\ pc' = [pc EXCEPT ![a] = "release"]
       [] OTHER ->
            /\ out' = out \cup {"msg:unknown_error"}
            /\ pc' = [pc EXCEPT ![a] = "release"]
  /\ UNCHANGED <<dispVars, obj, sample, calls, is_work, mutex, loc, fld, escaped, startArgs, affected, rejected>>

\* ListRefresher.run: the else clause of the try, self.infos.emit(emit_infos)
ListDone(a) ==
  /\ obj = "ListRefresher"
  /\ pc[a] = "done"
  /\ out' = out \cup {"infos"}
  /\ pc' = [pc EXCEPT ![a] = "release"]
  /\ UNCHANGED <<dispVars, obj, sample, calls, is_work, mutex, loc, fld, escaped, startArgs, affected, rejected>>

(* -------------------------- GetMoreInfoWorker ------------------------- *)
\* self._infos: None, a FileInfos / FolderInfos object, another truthy object
MoreInfos == {"none", "infos1", "infos2", "other"}

MoreInit == [infos |-> "none", emit_link |-> FALSE, url |-> "", pwd |-> ""]

\* GetMoreInfoWorker.set_values
More_set_values(infos, emit_link) ==
  /\ obj = "GetMoreInfoWorker"
  /\ Submit([fld EXCEPT !.infos = infos, !.emit_link = emit_link])
  /\ fld' = [fld EXCEPT !.infos = infos, !.emit_link = emit_link]
  /\ pc' = QThreadStart(pc)
  /\ UNCHANGED <<dispVars, obj, sample, is_work, mutex, loc, out, escaped, affected>>

\* GetMoreInfoWorker.get_dl_link
More_get_dl_link(url, pwd) ==
  /\ obj = "GetMoreInfoWorker"
  /\ Submit([fld EXCEPT !.url = url, !.pwd = pwd])
  /\ fld' = [fld EXCEPT !.url = url, !.pwd = pwd]
  /\ pc' = QThreadStart(pc)
  /\ UNCHANGED <<dispVars, obj, sample, is_work, mutex, loc, out, escaped, affected>>

\* GetMoreInfoWorker.run: the branch on self._url up to the backend call
MoreBegin(a) ==
  /\ obj = "GetMoreInfoWorker"
  /\ pc[a] = "body"
  /\ affected' = (affected \/ fld.url # startArgs.url \/ fld.infos # startArgs.infos)
  /\ IF fld.url = ""
     THEN IF fld.infos \in {"infos1", "infos2"}
          THEN /\ out' = out \cup {"msg:requesting"}
               /\ pc' = [pc EXCEPT ![a] = "io"]
          ELSE /\ UNCHANGED out
               /\ pc' = [pc EXCEPT ![a] = "release"]
     ELSE /\ UNCHANGED out
          /\ pc' = [pc EXCEPT ![a] = "io_link"]
  /\ UNCHANGED <<dispVars, obj, sample, calls, is_work, mutex, loc, fld, escaped, startArgs, rejected>>

\* GetMoreInfoWorker.run: get_share_info returns or raises; the result is
\* copied into self._infos, which is read again here
MoreInfoReturn(a, r) ==
  /\ obj = "GetMoreInfoWorker"
  /\ pc[a] = "io"
  /\ CASE r \in {"ok", "declined"} /\ fld.infos # "none" ->
            /\ out' = out \cup {IF fld.emit_link THEN "share_url" ELSE "infos", "msg:clear"}
            /\ affected' = (affected \/ fld.infos # startArgs.infos
                                     \/ fld.emit_link # startArgs.emit_link)
       [] r \in {"ok", "declined"} /\ fld.infos = "none" ->
            \* AttributeError on None, caught and logged
            /\ affected' = TRUE
            /\ UNCHANGED out
       [] r = "timeout" ->
            /\ out' = out \cup {"msg:timeout"}
            /\ UNCHANGED affected
       [] OTHER -> UNCHANGED <<out, affected>>
  /\ pc' = [pc EXCEPT ![a] = "release"]
  /\ UNCHANGED <<dispVars, obj, sample, calls, is_work, mutex, loc, fld, escaped, startArgs, rejected>>

\* GetMoreInfoWorker.run: get_file_info_by_url returns or raises
MoreLinkReturn(a, r) ==
  /\ obj = "GetMoreInfoWorker"
  /\ pc[a] = "io_link"
  /\ out' = out \cup
       CASE r = "ok" -> {"dl_link"}
         [] r = "declined" -> {"dl_link:error"}
         [] r = "timeout" -> {"msg:timeout"}
         [] OTHER -> {}
  /\ pc' = [pc EXCEPT ![a] = "release"]
  /\ UNCHANGED <<dispVars, obj, sample, calls, is_work, mutex, loc, fld, escaped, startArgs, affected, rejected>>

(* -------------------------- CheckUpdateWorker ------------------------- *)
\* self._ver: the running version, as "" (not a version string), "v1" (older
\* than the latest release) or "v2" (the latest release)
Versions == {"", "v1", "v2"}

\* CheckUpdateWorker.set_values
Check_set_values(ver, manual) ==
  /\ obj = "CheckUpdateWorker"
  /\ Submit([ver |-> ver, manual |-> manual])
  /\ fld' = [ver |-> ver, manual |-> manual]
  /\ pc' = QThreadStart(pc)
  /\ UNCHANGED <<dispVars, obj, sample, is_work, mutex, loc, out, escaped, affected>>

\* CheckUpdateWorker.run: "resp = None" and requests.get(self._api) is called
CheckBegin(a) ==
  /\ obj = "CheckUpdateWorker"
  /\ pc[a] = "body"
  /\ pc' = [pc EXCEPT ![a] = "io"]
  /\ UNCHANGED <<dispVars, obj, sample, calls, is_work, mutex, loc, fld, out, escaped, startArgs, affected, rejected>>

\* CheckUpdateWorker.run from "if resp:" to "self._manual = False": resp is
\* "ok" (the latest release), "declined" (a reply without tag_name: KeyError,
\* logged) or "none"; a self._ver that is no version string raises ValueError,
\* logged
CheckResult(a, resp) ==
  /\ out' = out \cup
       CASE resp = "ok" /\ fld.ver = "v1" ->
              {"infos:new"} \cup (IF fld.manual THEN {} ELSE {"bg_update_infos"})
         [] resp = "ok" /\ fld.ver = "v2" /\ fld.manual -> {"infos:latest"}
         [] resp = "none" /\ fld.manual -> {"infos:refused"}
         [] OTHER -> {}
  /\ affected' = (affected \/ fld # startArgs)
  /\ fld' = [fld EXCEPT !.manual = FALSE]
  /\ pc' = [pc EXCEPT ![a] = "release"]

\* CheckUpdateWorker.run: requests.get(self._api) returns or raises; a timeout
\* or a request fault leads to the request to the mirror, another exception
\* is logged
CheckApiReturn(a, r) ==
  /\ obj = "CheckUpdateWorker"
  /\ pc[a] = "io"
  /\ CASE r \in {"ok", "declined"} -> CheckResult(a, r)
       [] r = "timeout" ->
            /\ pc' = [pc EXCEPT ![a] = "io_mirror"]
            /\ UNCHANGED <<out, affected, fld>>
       [] OTHER ->
            \/ /\ pc' = [pc EXCEPT ![a] = "io_mirror"]
               /\ UNCHANGED <<out, affected, fld>>
            \/ CheckResult(a, "none")
  /\ UNCHANGED <<dispVars, obj, sample, calls, is_work, mutex, loc, escaped, startArgs, rejected>>

\* CheckUpdateWorker.run: requests.get(self._api_mirror) returns or raises
\* under a bare except
CheckMirrorReturn(a, r) ==
  /\ obj = "CheckUpdateWorker"
  /\ pc[a] = "io_mirror"
  /\ CheckResult(a, IF r \in {"ok", "declined"} THEN r ELSE "none")
  /\ UNCHANGED <<dispVars, obj, sample, calls, is_work, mutex, loc, escaped, startArgs, rejected>>

(* ------------------------- pending mappings --------------------------- *)
\* A Python dict keeps insertion order, and run() takes the first key: a
\* mapping is a sequence of [key, val] entries.

\* "d[k] = v" that adds an entry without looking for the key
DictPutAppend(d, k, v) ==
  Append(d, [key |-> k, val |-> v])

\* "d[k] = v": the value of an existing key is replaced in place, a new key is
\* added at the end
DictPut(d, k, v) ==
  IF \E i \in 1..Len(d) : d[i].key = k
  THEN [i \in 1..Len(d) |-> IF d[i].key = k THEN [key |-> k, val |-> v] ELSE d[i]]
  ELSE Append(d, [key |-> k, val |-> v])

\* "k in d.keys()"
DictHas(d, k) ==
  \E i \in 1..Len(d) : d[i].key = k

\* "d.update(e)": the entries of e are stored one by one, in e's order
RECURSIVE DictUpdate(_, _)
DictUpdate(d, e) ==
  IF e = <<>> THEN d ELSE DictUpdate(DictPut(d, Head(e).key, Head(e).val), Tail(e))

\* "del d[k]"
DictDel(d, k) ==
  LET i == CHOOSE j \in 1..Len(d) : d[j].key = k /\ \A h \in 1..(j - 1) : d[h].key # k
  IN  SubSeq(d, 1, i - 1) \o SubSeq(d, i + 1, Len(d))

\* number of entries of d stored under k
DictCount(d, k) ==
  Cardinality({i \in 1..Len(d) : d[i].key = k})

\* a caller-side call that is no set_values of a single-action worker
Call ==
  /\ calls < MaxCalls
  /\ calls' = calls + 1

(* ------------------------- backend transfers -------------------------- *)
\* size in bytes of the largest file transferred
MaxSize == 2

\* A transfer moves the files of sizes `sizes` one after the other and has
\* moved `now` bytes of the first of them; the backend calls the progress
\* callback with (total, now) after each byte moved, and may call it with
\* (0, 0) for an empty file.
FileContents == {<<0>>, <<MaxSize>>}
DirContents == {<<0>>, <<MaxSize>>, <<MaxSize, MaxSize>>}

XferDone(x) == Len(x.sizes) = 1 /\ x.now = x.sizes[1]

\* the transfer after its next progress sample
XferStep(x) ==
  IF x.now < x.sizes[1] THEN [x EXCEPT !.now = x.now + 1]
  ELSE IF x.sizes[1] = 0 THEN [x EXCEPT !.now = -1]
  ELSE [sizes |-> Tail(x.sizes), now |-> IF x.sizes[2] = 0 THEN -1 ELSE 1]

\* whether the backend has a further sample to report
XferCanStep(x) ==
  /\ x.now >= 0
  /\ x.now < x.sizes[1] \/ x.sizes[1] = 0 \/ Len(x.sizes) > 1

\* the sample (total, now) the callback receives for the transfer state x
SampleTotal(x) == x.sizes[1]
SampleNow(x) == IF x.now < 0 THEN 0 ELSE x.now

\* a rate computed by rounding up
RateRoundUp(total, now) ==
  (1000 * now + total - 1) \div total

\* "int(1000 * now_size / total_size)" for 0 <= now_size <= total_size; for
\* totals below 2^44 the float quotient truncates to the integer quotient
Rate(total, now) ==
  (1000 * now) \div total

\* the largest total_size of the samples given to a callback by itself
MaxTotal == 1001

\* total_size of the samples given to a callback by itself
SampleTotals == {0, 1, 3, 1000, MaxTotal}

\* no sample, and the sample (total, now) before the callback has run
NoSample == [total |-> -1, now |-> 0, rate |-> 0, raised |-> FALSE, st |-> "none"]
Given(total, now) == [total |-> total, now |-> now, rate |-> 0, raised |-> FALSE, st |-> "given"]

\* the samples a backend hands over: 0 <= now <= total
Samples ==
  UNION {{Given(t, n) : n \in 0..t} : t \in SampleTotals}

\* what _show_progress does with the sample (total, now): show_progress divides
\* now_size by total_size first, which raises ZeroDivisionError for a total
\* of 0; otherwise the rate is computed and published
Published(total, now) ==
  IF total = 0
  THEN [total |-> total, now |-> now, rate |-> 0, raised |-> TRUE, st |-> "done"]
  ELSE [total |-> total, now |-> now, rate |-> Rate(total, now), raised |-> FALSE, st |-> "done"]

\* Downloader._show_progress, called by the backend with the sample
Dl_show_progress ==
  /\ obj = "Downloader"
  /\ sample.st = "given"
  /\ sample' = Published(sample.total, sample.now)
  /\ UNCHANGED <<dispVars, obj, calls, is_work, mutex, pc, loc, fld, out, escaped,
                 startArgs, affected, rejected>>

(* ----------------------------- UploadWorker --------------------------- *)
\* local paths: a file, a directory, a path that does not exist
Paths == {"pf", "pd", "pm"}

\* os.path.exists, os.path.isdir
PathExists(p) == p # "pm"
PathIsDir(p) == p = "pd"

\* tools.UpJob without the fields the worker never reads or writes
UpJob(p, id, sp, sd) ==
  [furl |-> p, id |-> id, info |-> "none", rate |-> 0, set_pwd |-> sp, set_desc |-> sd]

UpBaseJobs == {UpJob(p, 1, FALSE, FALSE) : p \in Paths}

UpJobs ==
  UpBaseJobs \cup {UpJob("pf", 2, TRUE, TRUE), UpJob("pf", 2, FALSE, TRUE)}

UpEntry(j) == [key |-> j.furl, val |-> j]

\* the dicts a caller passes to add_tasks
UpDicts ==
  { <<UpEntry(UpJob("pf", 2, TRUE, TRUE))>>,
    <<UpEntry(UpJob("pf", 1, FALSE, FALSE)), UpEntry(UpJob("pd", 1, FALSE, FALSE))>>,
    <<UpEntry(UpJob("pm", 1, FALSE, FALSE)), UpEntry(UpJob("pf", 1, FALSE, FALSE))>>,
    <<UpEntry(UpJob("pd", 1, FALSE, FALSE)), UpEntry(UpJob("pm", 1, FALSE, FALSE))>> }

\* UploadWorker.add_task
Up_add_task(t) ==
  /\ obj = "UploadWorker"
  /\ Call
  /\ tasks' = IF ~DictHas(tasks, t.furl) THEN DictPut(tasks, t.furl, t) ELSE tasks
  /\ pendingSubs' = [pendingSubs EXCEPT ![t.furl] = @ + 1]
  /\ pc' = QThreadStart(pc)
  /\ UNCHANGED <<swVars, upVars, dmVars, shown, obj, sample, is_work, mutex, loc, out, escaped>>

\* UploadWorker.add_tasks
Up_add_tasks(d) ==
  /\ obj = "UploadWorker"
  /\ Call
  /\ tasks' = DictUpdate(tasks, d)
  /\ pendingSubs' = [k \in DOMAIN pendingSubs |->
                       IF DictHas(d, k) THEN pendingSubs[k] + 1 ELSE pendingSubs[k]]
  /\ pc' = QThreadStart(pc)
  /\ UNCHANGED <<swVars, upVars, dmVars, shown, obj, sample, is_work, mutex, loc, out, escaped>>

\* an exception leaves run(): the thread ends with the flag set and the mutex
\* locked
Escape(a) ==
  /\ escaped' = TRUE
  /\ pc' = [pc EXCEPT ![a] = "off"]

\* UploadWorker.run: the head of the loop, from the test of self._tasks to the
\* backend call for the first pending job
UpLoop(a) ==
  /\ obj = "UploadWorker"
  /\ pc[a] = "body"
  /\ IF tasks = <<>>
     THEN /\ pc' = [pc EXCEPT ![a] = "release"]
          /\ UNCHANGED <<furl, task, out, loc>>
     ELSE /\ furl' = tasks[1].key
          /\ task' = tasks[1].val
          /\ IF ~PathExists(tasks[1].key)
             THEN /\ out' = out \cup {"msg:not_found"}
                  /\ UNCHANGED <<pc, loc>>
             ELSE IF PathIsDir(tasks[1].key)
             THEN /\ UNCHANGED out
                  /\ \E c \in DirContents : loc' = [loc EXCEPT ![a] = [sizes |-> c, now |-> 0]]
                  /\ pc' = [pc EXCEPT ![a] = "io_dir"]
             ELSE /\ UNCHANGED out
                  /\ \E c \in FileContents : loc' = [loc EXCEPT ![a] = [sizes |-> c, now |-> 0]]
                  /\ pc' = [pc EXCEPT ![a] = "io_file"]
  /\ UNCHANGED <<swVars, dmVars, tasks, shown, pendingSubs, obj, sample, calls, is_work, mutex, escaped>>

\* UploadWorker._show_progress, called by the backend during upload_file or
\* upload_dir; show_progress divides by total_size, and the ZeroDivisionError
\* travels up through the backend call into run()
UpProgress(a) ==
  /\ obj = "UploadWorker"
  /\ pc[a] \in {"io_file", "io_dir"}
  /\ XferCanStep(loc[a])
  /\ LET x == XferStep(loc[a]) IN
     IF SampleTotal(x) = 0
     THEN IF pc[a] = "io_dir"
          THEN /\ Escape(a)
               /\ loc' = [loc EXCEPT ![a] = NoLoc]
               /\ UNCHANGED <<task, shown, out>>
          ELSE /\ task' = [task EXCEPT !.info = "unknown"]
               /\ shown' = [k \in {furl} |-> task']
               /\ pc' = [pc EXCEPT ![a] = "del"]
               /\ loc' = [loc EXCEPT ![a] = NoLoc]
               /\ UNCHANGED <<out, escaped>>
     ELSE /\ task' = [task EXCEPT !.rate = Rate(SampleTotal(x), SampleNow(x))]
          /\ shown' = [k \in {furl} |-> task']
          /\ loc' = [loc EXCEPT ![a] = x]
          /\ UNCHANGED <<pc, escaped, out>>
  /\ UNCHANGED <<swVars, dmVars, tasks, furl, pendingSubs, obj, sample, calls, is_work, mutex>>

\* UploadWorker.run: upload_dir returns or raises; the call is outside any try
UpDirReturn(a, r) ==
  /\ obj = "UploadWorker"
  /\ pc[a] = "io_dir"
  /\ r = "ok" => XferDone(loc[a])
  /\ IF r \in {"ok", "declined"}
     THEN /\ pc' = [pc EXCEPT ![a] = "del"]
          /\ UNCHANGED escaped
     ELSE Escape(a)
  /\ loc' = [loc EXCEPT ![a] = NoLoc]
  /\ UNCHANGED <<swVars, dispVars, obj, sample, calls, is_work, mutex, out>>

\* a variant of the else clause that does not look at the result code
UpAfterFileAnyCode(code, t) ==
  IF t.set_pwd THEN "io_pwd" ELSE IF t.set_desc THEN "io_desc" ELSE "del"

\* UploadWorker.run: where the else clause of the try goes after upload_file
\* returned `code` for the job t: to set_passwd, to set_desc, or to the del
UpAfterFile(code, t) ==
  IF code # "ok" THEN "del"
  ELSE IF t.set_pwd THEN "io_pwd"
  ELSE IF t.set_desc THEN "io_desc" ELSE "del"

\* UploadWorker.run: upload_file returns or raises, with the except and else
\* clauses of its try up to the next backend call; the local `code` holds the
\* result of a call that returned
UpFileReturn(a, r) ==
  /\ obj = "UploadWorker"
  /\ pc[a] = "io_file"
  /\ r = "ok" => XferDone(loc[a])
  /\ CASE r = "timeout" ->
            /\ out' = out \cup {"msg:timeout"}
            /\ task' = [task EXCEPT !.info = "timeout"]
            /\ shown' = [k \in {furl} |-> task']
            /\ pc' = [pc EXCEPT ![a] = "del"]
       [] r = "error" ->
            /\ task' = [task EXCEPT !.info = "unknown"]
            /\ shown' = [k \in {furl} |-> task']
            /\ pc' = [pc EXCEPT ![a] = "del"]
            /\ UNCHANGED out
       [] OTHER ->
            /\ task' = [task EXCEPT !.info = "uploaded"]
            /\ pc' = [pc EXCEPT ![a] = UpAfterFile(r, task)]
            /\ UNCHANGED <<out, shown>>
  /\ loc' = [loc EXCEPT ![a] = IF r \in {"ok", "declined"} THEN [code |-> r] ELSE NoLoc]
  /\ UNCHANGED <<swVars, dmVars, tasks, furl, pendingSubs, obj, sample, calls, is_work, mutex, escaped>>

\* UploadWorker.run: set_passwd returns or raises, inside the else clause of
\* the try, where no except clause applies
UpPwdReturn(a, r) ==
  /\ obj = "UploadWorker"
  /\ pc[a] = "io_pwd"
  /\ IF r \in {"ok", "declined"}
     THEN /\ pc' = [pc EXCEPT ![a] = IF task.set_desc THEN "io_desc" ELSE "del"]
          /\ UNCHANGED escaped
     ELSE Escape(a)
  /\ UNCHANGED <<swVars, dispVars, obj, sample, calls, is_work, mutex, loc, out>>

\* UploadWorker.run: set_desc returns or raises, inside the same else clause
UpDescReturn(a, r) ==
  /\ obj = "UploadWorker"
  /\ pc[a] = "io_desc"
  /\ IF r \in {"ok", "declined"}
     THEN /\ pc' = [pc EXCEPT ![a] = "del"]
          /\ UNCHANGED escaped
     ELSE Escape(a)
  /\ UNCHANGED <<swVars, dispVars, obj, sample, calls, is_work, mutex, loc, out>>

\* UploadWorker.run: "del self._tasks[self._furl]"
UpDel(a) ==
  /\ obj = "UploadWorker"
  /\ pc[a] = "del"
  /\ tasks' = DictDel(tasks, furl)
  /\ pendingSubs' = [pendingSubs EXCEPT ![furl] = 0]
  /\ pc' = [pc EXCEPT ![a] = "body"]
  /\ UNCHANGED <<swVars, upVars, dmVars, shown, obj, sample, calls, is_work, mutex, loc, out, escaped>>

(* ----------------------- Downloader, DownloadManager ----------------- *)
\* number of Downloader objects a behaviour creates
MaxDl == 2

\* number of caller-side calls of the DownloadManager that change something
MaxDmCalls == 2

\* number of further start_task calls made for a job that was stopped
MaxRestarts == 1

\* size in bytes of the files downloaded
MaxDlSize == 1

\* share URLs: of a file, of a folder, of neither shape
Urls == {"uf", "ud", "ux"}

\* lanzou.api.utils.is_file_url, is_folder_url
is_file_url(u) == u = "uf"
is_folder_url(u) == u = "ud"

\* the values of DownloadManager._thread
Ceilings == {1, 2}

\* tools.DlJob; pwd and path travel with name and are never read apart from it
DlJob(n, u) ==
  [name |-> n, url |-> u, info |-> "none", run |-> FALSE, rate |-> 0]

DlJobs == {DlJob("n1", u) : u \in Urls}

DlEntry(j) == [key |-> j.url, val |-> j]

\* the dicts a caller passes to add_tasks
DlDicts ==
  { <<DlEntry(DlJob("n2", "uf"))>>,
    <<DlEntry(DlJob("n1", "uf")), DlEntry(DlJob("n1", "ux"))>>,
    <<DlEntry(DlJob("n1", "ux")), DlEntry(DlJob("n1", "ud"))>> }

\* what a file url and a folder url lead to
DlFileContents == {<<0>>, <<MaxDlSize>>}
DlDirContents == {<<MaxDlSize>>, <<MaxDlSize, MaxDlSize>>}

\* "m[k] = v" and "del m[k]" on the mappings whose order nothing reads
MapPut(m, k, v) == [x \in DOMAIN m \cup {k} |-> IF x = k THEN v ELSE m[x]]
MapDel(m, k) == [x \in DOMAIN m \ {k} |-> m[x]]

\* Downloader.__init__: no url, never started, nothing connected
NoXfer == [sizes |-> <<>>, now |-> 0]
NewDownloader ==
  [url |-> "", st |-> "new", kill |-> FALSE, wired |-> FALSE, frame |-> 0,
   x |-> NoXfer, q |-> <<>>, fin |-> 0]

Dls == 1..Len(dls)

\* QThread.isRunning of a Downloader
isRunning(d) == dls[d].st \in {"run", "io"}

\* signals a Downloader emits; connected ones are queued to the caller's thread
Sig(s, u, r, i) == [sig |-> s, url |-> u, rate |-> r, info |-> i]
Emit(o, s) == IF o.wired THEN [o EXCEPT !.q = Append(o.q, s)] ELSE o

\* the thread of Downloader o ends and QThread emits finished
Finished(o) ==
  Emit([o EXCEPT !.st = "done", !.kill = FALSE, !.x = NoXfer],
       Sig("finished", "", 0, "none"))

\* the job a caller hands to start_task and stop_task: the one on display
TaskOf(u) == IF u \in DOMAIN dl_ing THEN dl_ing[u] ELSE DlJob("n1", u)

\* the caller's thread is between two slots
GuiIdle == obj = "DownloadManager" /\ gui.op = "idle"

\* what a caller-side call of the DownloadManager can change
dmCallVars == <<tasks, pendingSubs, pc, thread, downloaders, dl_ing, dls, shown, hist>>

\* a caller-side call of the DownloadManager, the n-th at most; calls counts
\* those that changed something
DmCallWithin(n) ==
  /\ calls < n
  /\ calls' = IF dmCallVars' = dmCallVars THEN calls ELSE calls + 1
  /\ UNCHANGED <<swVars, upVars, count, cell, gui, obj, sample, is_work, mutex, loc, out, escaped>>

DmCall == DmCallWithin(MaxDmCalls)

\* DownloadManager.set_thread
Dm_set_thread(n) ==
  /\ GuiIdle
  /\ thread' = n
  /\ hist' = [hist EXCEPT !.ceil = hist.ceil \/ n # thread]
  /\ UNCHANGED <<tasks, pendingSubs, pc, downloaders, dl_ing, dls, shown>>
  /\ DmCall

\* DownloadManager.add_task
Dm_add_task(t) ==
  /\ GuiIdle
  /\ tasks' = IF ~DictHas(tasks, t.url) THEN DictPut(tasks, t.url, t) ELSE tasks
  /\ pendingSubs' = [pendingSubs EXCEPT ![t.url] = @ + 1]
  /\ pc' = QThreadStart(pc)
  /\ UNCHANGED <<thread, downloaders, dl_ing, dls, shown, hist>>
  /\ DmCall

\* DownloadManager.add_tasks
Dm_add_tasks(d) ==
  /\ GuiIdle
  /\ tasks' = DictUpdate(tasks, d)
  /\ pendingSubs' = [k \in DOMAIN pendingSubs |->
                       IF DictHas(d, k) THEN pendingSubs[k] + 1 ELSE pendingSubs[k]]
  /\ pc' = QThreadStart(pc)
  /\ UNCHANGED <<thread, downloaders, dl_ing, dls, shown, hist>>
  /\ DmCall

\* DownloadManager.stop_task with Downloader.stop; a KeyError ends the method
\* at the lookup that raises it, and the one of self.downloaders[task.url]
\* goes to the caller
Dm_stop_task(u) ==
  /\ GuiIdle
  /\ IF u \notin DOMAIN downloaders
     THEN /\ hist' = [hist EXCEPT !.fault = TRUE]
          /\ UNCHANGED <<dls, dl_ing, shown>>
     ELSE IF isRunning(downloaders[u])
     THEN /\ dls' = [dls EXCEPT ![downloaders[u]].kill = TRUE]
          /\ hist' = [hist EXCEPT !.stopped = @ \cup {u}]
          /\ IF u \in DOMAIN dl_ing
             THEN /\ dl_ing' = [dl_ing EXCEPT ![u].run = FALSE]
                  /\ shown' = dl_ing'
             ELSE UNCHANGED <<dl_ing, shown>>
     ELSE UNCHANGED <<dls, hist, dl_ing, shown>>
  /\ UNCHANGED <<tasks, pendingSubs, pc, thread, downloaders>>
  /\ DmCall

\* DownloadManager.start_task
Dm_start_task(u) ==
  /\ GuiIdle
  /\ IF u \notin DOMAIN downloaders
     THEN /\ tasks' = IF ~DictHas(tasks, u) THEN DictPut(tasks, u, TaskOf(u)) ELSE tasks
          /\ pendingSubs' = [pendingSubs EXCEPT ![u] = @ + 1]
          /\ pc' = QThreadStart(pc)
          /\ UNCHANGED <<dls, dl_ing, shown>>
     ELSE IF isRunning(downloaders[u])
     THEN UNCHANGED <<tasks, pendingSubs, pc, dls, dl_ing, shown>>
     ELSE /\ dls' = [dls EXCEPT ![downloaders[u]].st = "run"]
          /\ IF u \in DOMAIN dl_ing
             THEN /\ dl_ing' = [dl_ing EXCEPT ![u].run = TRUE]
                  /\ shown' = dl_ing'
             ELSE UNCHANGED <<dl_ing, shown>>
          /\ UNCHANGED <<tasks, pendingSubs, pc>>
  /\ UNCHANGED <<thread, downloaders, hist>>
  /\ DmCallWithin(IF u \in hist.stopped THEN MaxDmCalls + MaxRestarts ELSE MaxDmCalls)

\* DownloadManager.del_task
Dm_del_task(u) ==
  /\ GuiIdle
  /\ dl_ing' = MapDel(dl_ing, u)
  /\ downloaders' = MapDel(downloaders, u)
  /\ hist' = IF u \in DOMAIN dl_ing \cup DOMAIN downloaders
             THEN [hist EXCEPT !.deleted = @ \cup {u}] ELSE hist
  /\ UNCHANGED <<tasks, pendingSubs, pc, thread, dls, shown>>
  /\ DmCall

\* a slot for download_failed that leaves the record as it is
ahead_error_dropped(m, url, error) == m

\* DownloadManager._ahead_error: the record under url with info = error
ahead_error(m, url, error) == [m EXCEPT ![url].info = error]

\* a slot for folder_file_failed that puts the code on the record of the job
ahead_folder_error_recorded(m, code, file) == [m EXCEPT ![file].info = code]

\* DownloadManager._ahead_folder_error: "pass"
ahead_folder_error(m, code, file) == m

\* the slots _ahead_rate, _ahead_error and _ahead_folder_error, run on the
\* caller's thread for the oldest queued signal of Downloader d; a KeyError
\* of self._dl_ing[url] ends the slot at the lookup that raises it
DmSlot(d) ==
  /\ GuiIdle
  /\ d \in Dls
  /\ dls[d].q # <<>>
  /\ Head(dls[d].q).sig # "finished"
  /\ dls' = [dls EXCEPT ![d].q = Tail(dls[d].q)]
  /\ LET s == Head(dls[d].q) IN
     IF s.url \notin DOMAIN dl_ing
     THEN /\ hist' = IF s.sig = "file_failed" THEN hist ELSE [hist EXCEPT !.fault = TRUE]
          /\ UNCHANGED <<dl_ing, shown>>
     ELSE IF s.sig = "file_failed"
     THEN /\ dl_ing' = ahead_folder_error(dl_ing, s.info, s.url)
          /\ UNCHANGED <<shown, hist>>
     ELSE /\ dl_ing' = IF s.sig = "rate" THEN [dl_ing EXCEPT ![s.url].rate = s.rate]
                       ELSE ahead_error(dl_ing, s.url, s.info)
          /\ shown' = dl_ing'
          /\ UNCHANGED hist
  /\ UNCHANGED <<swVars, upVars, tasks, pendingSubs, thread, count, downloaders, cell, gui,
                 obj, sample, calls, is_work, mutex, pc, loc, out, escaped>>

\* the slot "lambda: self._add_thread(url)" starts: url is the variable of the
\* frame of run() that made the connection, read now; "self._count -= 1" first
\* reads self._count
DmFinishedRead(d) ==
  /\ GuiIdle
  /\ d \in Dls
  /\ dls[d].q # <<>>
  /\ Head(dls[d].q).sig = "finished"
  /\ dls' = [dls EXCEPT ![d].q = Tail(dls[d].q)]
  /\ gui' = [op |-> "_add_thread", url |-> cell[dls[d].frame], c |-> count, d |-> d]
  /\ UNCHANGED <<swVars, upVars, tasks, shown, pendingSubs, thread, count, downloaders,
                 dl_ing, cell, hist, obj, sample, calls, is_work, mutex, pc, loc, out, escaped>>

\* an _add_thread that drops the record on display together with the Downloader
DmFinishedWriteDropsRecord ==
  /\ obj = "DownloadManager"
  /\ gui.op = "_add_thread"
  /\ count' = gui.c - 1
  /\ downloaders' = MapDel(downloaders, gui.url)
  /\ dl_ing' = MapDel(dl_ing, gui.url)
  /\ hist' = IF gui.url \in DOMAIN downloaders THEN hist ELSE [hist EXCEPT !.fault = TRUE]
  /\ dls' = [dls EXCEPT ![gui.d].fin = @ + 1]
  /\ gui' = [op |-> "idle", url |-> "", c |-> 0, d |-> 0]
  /\ UNCHANGED <<swVars, upVars, tasks, shown, pendingSubs, thread, cell,
                 obj, sample, calls, is_work, mutex, pc, loc, out, escaped>>

\* _add_thread: self._count is written and the Downloader stored under url is
\* dropped, a KeyError if there is none
DmFinishedWrite ==
  /\ obj = "DownloadManager"
  /\ gui.op = "_add_thread"
  /\ count' = gui.c - 1
  /\ downloaders' = MapDel(downloaders, gui.url)
  /\ hist' = IF gui.url \in DOMAIN downloaders THEN hist ELSE [hist EXCEPT !.fault = TRUE]
  /\ dls' = [dls EXCEPT ![gui.d].fin = @ + 1]
  /\ gui' = [op |-> "idle", url |-> "", c |-> 0, d |-> 0]
  /\ UNCHANGED <<swVars, upVars, tasks, shown, pendingSubs, thread, dl_ing, cell,
                 obj, sample, calls, is_work, mutex, pc, loc, out, escaped>>

\* the variables no step of DownloadManager.run touches
dmRunFixed == <<swVars, upVars, shown, thread, gui, obj, sample, calls, is_work, mutex,
                out, escaped>>

\* DownloadManager.run: "if not self._tasks: break"
DmBreak(a) ==
  /\ obj = "DownloadManager"
  /\ pc[a] = "body"
  /\ tasks = <<>>
  /\ pc' = [pc EXCEPT ![a] = "release"]
  /\ UNCHANGED <<dmRunFixed, tasks, pendingSubs, count, downloaders, dl_ing, dls, cell,
                 hist, loc>>

\* DownloadManager.run: with a job pending, the wait for a free slot ends and
\* "self._count += 1" reads self._count; while self._count >= self._thread the
\* thread sleeps. Only this thread removes pending jobs, so the test of
\* self._tasks has the same result here as when the loop made it.
DmCountRead(a) ==
  /\ obj = "DownloadManager"
  /\ pc[a] = "body"
  /\ tasks # <<>>
  /\ count < thread
  /\ loc' = [loc EXCEPT ![a].c = count]
  /\ pc' = [pc EXCEPT ![a] = "incr"]
  /\ UNCHANGED <<dmRunFixed, tasks, pendingSubs, count, downloaders, dl_ing, dls, cell, hist>>

\* DownloadManager.run: "self._count += 1" writes self._count
DmCountWrite(a) ==
  /\ obj = "DownloadManager"
  /\ pc[a] = "incr"
  /\ count' = loc[a].c + 1
  /\ pc' = [pc EXCEPT ![a] = "pick"]
  /\ UNCHANGED <<dmRunFixed, tasks, pendingSubs, downloaders, dl_ing, dls, cell, hist, loc>>

\* DownloadManager.run: the first pending key is taken and a Downloader is
\* stored under it
DmPick(a) ==
  /\ obj = "DownloadManager"
  /\ pc[a] = "pick"
  /\ Len(dls) < MaxDl
  /\ LET u == tasks[1].key
         f == IF loc[a].frame = 0 THEN Len(cell) + 1 ELSE loc[a].frame
     IN  /\ loc' = [loc EXCEPT ![a].url = u, ![a].task = tasks[1].val, ![a].frame = f]
         /\ cell' = IF loc[a].frame = 0 THEN Append(cell, u) ELSE [cell EXCEPT ![f] = u]
         /\ dls' = Append(dls, NewDownloader)
         /\ downloaders' = MapPut(downloaders, u, Len(dls) + 1)
  /\ pc' = [pc EXCEPT ![a] = "wire"]
  /\ UNCHANGED <<dmRunFixed, tasks, pendingSubs, count, dl_ing, hist>>

\* DownloadManager.run: the five connections, each through
\* self.downloaders[url]; a KeyError goes to the except clause
DmWire(a) ==
  /\ obj = "DownloadManager"
  /\ pc[a] = "wire"
  /\ IF loc[a].url \in DOMAIN downloaders
     THEN /\ dls' = [dls EXCEPT ![downloaders[loc[a].url]].wired = TRUE,
                                ![downloaders[loc[a].url]].frame = loc[a].frame]
          /\ pc' = [pc EXCEPT ![a] = "rec"]
     ELSE /\ pc' = [pc EXCEPT ![a] = "del"]
          /\ UNCHANGED dls
  /\ UNCHANGED <<dmRunFixed, tasks, pendingSubs, count, downloaders, dl_ing, cell, hist, loc>>

\* DownloadManager.run: "self._dl_ing[url] = task._replace(run=True)"
DmRecord(a) ==
  /\ obj = "DownloadManager"
  /\ pc[a] = "rec"
  /\ dl_ing' = MapPut(dl_ing, loc[a].url, [loc[a].task EXCEPT !.run = TRUE])
  /\ pc' = [pc EXCEPT ![a] = "setv"]
  /\ UNCHANGED <<dmRunFixed, tasks, pendingSubs, count, downloaders, dls, cell, hist, loc>>

\* DownloadManager.run: Downloader.set_values through self.downloaders[url],
\* which stores the url and calls start(); a KeyError goes to the except clause
DmSetValues(a) ==
  /\ obj = "DownloadManager"
  /\ pc[a] = "setv"
  /\ IF loc[a].url \in DOMAIN downloaders
     THEN LET d == downloaders[loc[a].url] IN
          dls' = [dls EXCEPT ![d].url = loc[a].task.url,
                             ![d].st = IF isRunning(d) THEN @ ELSE "run"]
     ELSE UNCHANGED dls
  /\ pc' = [pc EXCEPT ![a] = "del"]
  /\ UNCHANGED <<dmRunFixed, tasks, pendingSubs, count, downloaders, dl_ing, cell, hist, loc>>

\* DownloadManager.run: "del self._tasks[url]"
DmDel(a) ==
  /\ obj = "DownloadManager"
  /\ pc[a] = "del"
  /\ tasks' = DictDel(tasks, loc[a].url)
  /\ pendingSubs' = [pendingSubs EXCEPT ![loc[a].url] = 0]
  /\ hist' = [hist EXCEPT !.dispatched = @ \cup {loc[a].url}]
  /\ pc' = [pc EXCEPT ![a] = "body"]
  /\ UNCHANGED <<dmRunFixed, count, downloaders, dl_ing, dls, cell, loc>>

\* the variables no step of a Downloader's thread touches
dlRunFixed == <<swVars, upVars, tasks, shown, pendingSubs, thread, count, downloaders,
                dl_ing, cell, gui, hist, obj, sample, calls, is_work, mutex, pc, loc,
                out, escaped>>

\* Downloader.run: the shape of self.url selects the backend call; with a url
\* of neither shape run() returns at once and the thread ends
DlBegin(d) ==
  /\ obj = "DownloadManager"
  /\ d \in Dls
  /\ dls[d].st = "run"
  /\ IF is_file_url(dls[d].url)
     THEN \E c \in DlFileContents :
            dls' = [dls EXCEPT ![d].st = "io", ![d].x = [sizes |-> c, now |-> 0]]
     ELSE IF is_folder_url(dls[d].url)
     THEN \E c \in DlDirContents :
            dls' = [dls EXCEPT ![d].st = "io", ![d].x = [sizes |-> c, now |-> 0]]
     ELSE dls' = [dls EXCEPT ![d] = Finished(dls[d])]
  /\ UNCHANGED dlRunFixed

\* Downloader._show_progress, called by the backend during the download;
\* show_progress divides by total_size, and the ZeroDivisionError travels up
\* through the backend call to the last except clause of run()
DlProgress(d) ==
  /\ obj = "DownloadManager"
  /\ d \in Dls
  /\ dls[d].st = "io"
  /\ XferCanStep(dls[d].x)
  /\ LET x == XferStep(dls[d].x)
         o == dls[d]
     IN  dls' = [dls EXCEPT ![d] =
           IF SampleTotal(x) = 0
           THEN Finished(Emit(o, Sig("failed", o.url, 0, "unknown")))
           ELSE Emit([o EXCEPT !.x = x],
                     Sig("rate", o.url, Rate(SampleTotal(x), SampleNow(x)), "none"))]
  /\ UNCHANGED dlRunFixed

\* Downloader._down_failed, called by the backend when a file of a folder
\* fails; the backend goes on with the next file
DlFileFailed(d) ==
  /\ obj = "DownloadManager"
  /\ d \in Dls
  /\ dls[d].st = "io"
  /\ is_folder_url(dls[d].url)
  /\ dls[d].x.now >= 0
  /\ dls[d].x.now < dls[d].x.sizes[1]
  /\ dls' = [dls EXCEPT ![d] =
       Emit([dls[d] EXCEPT !.x.now = dls[d].x.sizes[1]],
            Sig("file_failed", dls[d].url, 0, "code"))]
  /\ UNCHANGED dlRunFixed

\* Downloader.run: the backend call returns or raises, the matching signal is
\* emitted, run() returns and the thread ends
DlReturn(d, r) ==
  /\ obj = "DownloadManager"
  /\ d \in Dls
  /\ dls[d].st = "io"
  /\ r = "ok" => XferDone(dls[d].x)
  /\ LET o == dls[d] IN
     dls' = [dls EXCEPT ![d] =
       CASE r = "ok" -> Finished(Emit(o, Sig("rate", o.url, 1000, "none")))
         [] r = "declined" -> Finished(Emit(o, Sig("failed", o.url, 0, "code")))
         [] r = "timeout" -> Finished(Emit(o, Sig("failed", o.url, 0, "net")))
         [] OTHER -> Finished(Emit(o, Sig("failed", o.url, 0, "unknown")))]
  /\ UNCHANGED dlRunFixed

\* QThread.terminate took effect: the thread of a Downloader ends where it is
DlTerminated(d) ==
  /\ obj = "DownloadManager"
  /\ d \in Dls
  /\ dls[d].kill
  /\ isRunning(d)
  /\ dls' = [dls EXCEPT ![d] = Finished(dls[d])]
  /\ UNCHANGED dlRunFixed

(* ------------------------------ the system ---------------------------- *)
InitFld(o) ==
  CASE o = "LogoutWorker" -> LogoutInit
    [] o = "SetPwdWorker" -> SetPwdInit
    [] o = "RenameMkdirWorker" -> RenameInit
    [] o = "ListRefresher" -> ListInit
    [] o = "GetMoreInfoWorker" -> MoreInit
    [] o = "LoginLuncher" -> LoginInit
    [] o = "CheckUpdateWorker" -> [ver |-> "", manual |-> FALSE]
    [] OTHER -> [x |-> 0]

Init ==
  /\ obj \in SingleWorkers \cup {"LoginLuncher", "UploadWorker", "DownloadManager", "Downloader"}
  /\ calls = 0
  /\ is_work = FALSE
  /\ mutex = 0
  /\ pc = [a \in Acts |-> "off"]
  /\ loc = [a \in Acts |-> NoLoc]
  /\ fld = InitFld(obj)
  /\ out = {}
  /\ escaped = FALSE
  /\ startArgs = InitFld(obj)
  /\ affected = FALSE
  /\ rejected = 0
  /\ tasks = <<>>
  /\ furl = ""
  /\ task = "none"
  /\ shown = <<>>
  /\ pendingSubs = [k \in Paths \cup Urls |-> 0]
  /\ thread \in IF obj = "DownloadManager" THEN Ceilings ELSE {1}
  /\ count = 0
  /\ downloaders = <<>>
  /\ dl_ing = <<>>
  /\ dls = <<>>
  /\ cell = <<>>
  /\ gui = [op |-> "idle", url |-> "", c |-> 0, d |-> 0]
  /\ hist = [stopped |-> {}, deleted |-> {}, dispatched |-> {}, ceil |-> FALSE,
             fault |-> FALSE]
  /\ sample \in IF obj = "Downloader" THEN Samples ELSE {NoSample}

Next ==
  \/ \E u \in BOOLEAN : Logout_set_values(u)
  \/ \E i \in SetPwdInfos, w \in WorkIds : SetPwd_set_values(i, w)
  \/ \E i \in RenameInfos, w \in WorkIds, f \in FolderLists : Rename_set_values(i, w, f)
  \/ \E f \in ListArgs : List_set_values(f)
  \/ \E i \in MoreInfos, e \in BOOLEAN : More_set_values(i, e)
  \/ \E u \in {"", "u"} : More_get_dl_link(u, "")
  \/ \E a \in Acts : RunCheck(a)
  \/ \E a \in Acts : RunLock(a)
  \/ \E a \in Acts : RunRelease(a)
  \/ \E a \in Acts : LogoutCall(a)
  \/ \E a \in Acts, r \in Outcomes : LogoutReturn(a, r)
  \/ \E f \in LoginArgs : Login_set_values(f)
  \/ \E a \in Acts : LoginBegin(a)
  \/ \E a \in Acts, r \in Outcomes : LoginCookieReturn(a, r)
  \/ \E a \in Acts, r \in Outcomes : LoginReturn(a, r)
  \/ \E a \in Acts : SetPwdBegin(a)
  \/ \E a \in Acts : SetPwdItem(a)
  \/ \E a \in Acts, r \in Outcomes : SetPwdReturn(a, r)
  \/ \E a \in Acts : RenameBegin(a)
  \/ \E a \in Acts, r \in Outcomes : RenameMkdirReturn(a, r)
  \/ \E a \in Acts : RenameItem(a)
  \/ \E a \in Acts, r \in Outcomes : RenameItemReturn(a, r)
  \/ \E a \in Acts : ListBegin(a)
  \/ \E a \in Acts, r \in Outcomes : ListFilesReturn(a, r)
  \/ \E a \in Acts, r \in Outcomes : ListDirsReturn(a, r)
  \/ \E a \in Acts : ListDone(a)
  \/ \E a \in Acts : MoreBegin(a)
  \/ \E a \in Acts, r \in Outcomes : MoreInfoReturn(a, r)
  \/ \E a \in Acts, r \in Outcomes : MoreLinkReturn(a, r)
  \/ \E v \in Versions, m \in BOOLEAN : Check_set_values(v, m)
  \/ \E a \in Acts : CheckBegin(a)
  \/ \E a \in Acts, r \in Outcomes : CheckApiReturn(a, r)
  \/ \E a \in Acts, r \in Outcomes : CheckMirrorReturn(a, r)
  \/ Dl_show_progress
  \/ \E t \in UpJobs : Up_add_task(t)
  \/ \E d \in UpDicts : Up_add_tasks(d)
  \/ \E a \in Acts : UpLoop(a)
  \/ \E a \in Acts : UpProgress(a)
  \/ \E a \in Acts, r \in Outcomes : UpDirReturn(a, r)
  \/ \E a \in Acts, r \in Outcomes : UpFileReturn(a, r)
  \/ \E a \in Acts, r \in Outcomes : UpPwdReturn(a, r)
  \/ \E a \in Acts, r \in Outcomes : UpDescReturn(a, r)
  \/ \E a \in Acts : UpDel(a)
  \/ \E n \in Ceilings : Dm_set_thread(n)
  \/ \E t \in DlJobs : Dm_add_task(t)
  \/ \E d \in DlDicts : Dm_add_tasks(d)
  \/ \E u \in Urls : Dm_stop_task(u)
  \/ \E u \in Urls : Dm_start_task(u)
  \/ \E u \in Urls : Dm_del_task(u)
  \/ \E d \in 1..MaxDl : DmSlot(d)
  \/ \E d \in 1..MaxDl : DmFinishedRead(d)
  \/ DmFinishedWrite
  \/ \E a \in Acts : DmBreak(a)
  \/ \E a \in Acts : DmCountRead(a)
  \/ \E a \in Acts : DmCountWrite(a)
  \/ \E a \in Acts : DmPick(a)
  \/ \E a \in Acts : DmWire(a)
  \/ \E a \in Acts : DmRecord(a)
  \/ \E a \in Acts : DmSetValues(a)
  \/ \E a \in Acts : DmDel(a)
  \/ \E d \in 1..MaxDl : DlBegin(d)
  \/ \E d \in 1..MaxDl : DlProgress(d)
  \/ \E d \in 1..MaxDl : DlFileFailed(d)
  \/ \E d \in 1..MaxDl, r \in Outcomes : DlReturn(d, r)
  \/ \E d \in 1..MaxDl : DlTerminated(d)

Spec == Init /\ [][Next]_vars

(* ------------------------------ properties ---------------------------- *)
\* no activation of the object's run() exists
Quiet == \A a \in Acts : pc[a] = "off"

\* the activations inside the guarded branch of run(), from the lock on
InGuard == {a \in Acts : pc[a] \notin {"off", "check"}}

\* the Downloaders whose thread is running
Live == {d \in Dls : isRunning(d)}

\* the record on display under u is terminal: success or an error
Terminal(u) ==
  /\ u \in DOMAIN dl_ing
  /\ dl_ing[u].rate = 1000 \/ dl_ing[u].info # "none"

\* a Downloader working on u still runs or has signals on their way
InFlight(u) ==
  \E d \in Dls : dls[d].url = u /\ (isRunning(d) \/ dls[d].q # <<>>)

\* the dispatch loop is between two jobs or not running, and the caller's
\* thread is between two slots
DmAtRest ==
  /\ obj = "DownloadManager"
  /\ gui.op = "idle"
  /\ \A a \in Acts : pc[a] \in {"off", "body", "release"}

\* C1: as long as nobody changes the ceiling, the number of Downloaders
\* running at the same time never exceeds self._thread, whatever add_task,
\* add_tasks, start_task, stop_task, del_task and completions have happened.
C1_RunningWithinCeiling ==
  ~hist.ceil => Cardinality(Live) <= thread

\* C2: for every url at most one Downloader working on it is running, also
\* when add_task names a url whose Downloader is still running.
C2_OneLivePerUrl ==
  \A u \in Urls : Cardinality({d \in Live : dls[d].url = u}) <= 1

\* C3: for every guarded worker, at most one execution of the guarded branch
\* of run() is in progress at any time.
C3_SingleFlight ==
  Cardinality(InGuard) <= 1

\* C3 witness: a guarded body is in progress and a further submission has
\* arrived in the meantime
C3_SubmittedWhileBusy ==
  /\ rejected > 0
  /\ \E a \in Acts : pc[a] \notin {"off", "check", "lock", "release"}

\* C4: a submission made while the guard is Busy leaves the invocation in
\* flight unaffected: every argument field that invocation reads holds what
\* the submission that started it stored.
C4_InFlightUnaffected ==
  ~affected

\* C5: a submission made while the guard is Busy is answered with the
\* "running in the background, retry later" message: once the worker has come
\* to rest after such a submission, with no exception having left run(), the
\* message has been emitted.
C5_BusyReported ==
  (HasElse /\ Quiet /\ ~escaped /\ rejected > 0) => "msg:busy" \in out

\* C6: every invocation that entered Busy has put the guard back to Idle by
\* the time its thread has ended, on every exit path of run().
C6_GuardReleased ==
  Quiet => (~is_work /\ mutex = 0)

\* C7: no added job is left behind: when no dispatch loop is running and none
\* was ended by an exception, no job is pending.
C7_NoJobLeftBehind ==
  (obj \in {"DownloadManager", "UploadWorker"} /\ Quiet /\ ~escaped) => tasks = <<>>

\* C8: every dispatched download job that was neither stopped nor deleted is
\* terminal (rate 1000 or an error) once its Downloader has ended and all its
\* signals are handled, whatever the shape of its url.
C8_RetiredIsTerminal ==
  \A u \in Urls :
    ( /\ DmAtRest
      /\ u \in hist.dispatched \ (hist.stopped \cup hist.deleted)
      /\ u \in DOMAIN dl_ing
      /\ ~DictHas(tasks, u)
      /\ ~InFlight(u) )
    => Terminal(u)

\* C9: every file or folder url the dispatch loop has removed from the pending
\* mapping, and that was neither stopped nor deleted nor added again, has a
\* Downloader running (or signals of it on their way) or a terminal record.
C9_DispatchedIsTracked ==
  \A u \in {v \in Urls : is_file_url(v) \/ is_folder_url(v)} :
    ( /\ DmAtRest
      /\ u \in hist.dispatched \ (hist.stopped \cup hist.deleted)
      /\ ~DictHas(tasks, u) )
    => (InFlight(u) \/ Terminal(u))

\* C10: however often a key is submitted before it is dispatched, the pending
\* mapping of the download and of the upload dispatcher holds exactly one
\* entry for it.
C10_OnePendingEntry ==
  \A k \in DOMAIN pendingSubs :
    /\ DictCount(tasks, k) <= 1
    /\ pendingSubs[k] >= 1 => DictCount(tasks, k) = 1

\* C10 witness: a key was submitted twice before its dispatch
C10_SubmittedTwice ==
  \E k \in DOMAIN pendingSubs : pendingSubs[k] >= 2 /\ DictCount(tasks, k) = 1

\* the record stored under key k in a pending mapping d
DictGet(d, k) ==
  d[CHOOSE i \in 1..Len(d) : d[i].key = k].val

\* C11: a second submission of a key that is already pending is ignored: no
\* step of add_task or add_tasks changes the record a pending key already has.
C11_PendingRecordKept ==
  [][\A k \in DOMAIN pendingSubs :
       (DictHas(tasks, k) /\ DictHas(tasks', k)) => DictGet(tasks', k) = DictGet(tasks, k)]_vars

\* the Downloaders created for key u, and the number of finished notifications
\* handled for the Downloaders in S, each of which took one off self._count
DlFor(u) == {d \in Dls : dls[d].url = u}

RECURSIVE SumFin(_)
SumFin(S) ==
  IF S = {} THEN 0
  ELSE LET d == CHOOSE x \in S : TRUE IN dls[d].fin + SumFin(S \ {d})

\* C12: after stop_task and then start_task for a job whose Downloader was
\* running, whatever the order in which the finished notification arrives, the
\* key has at most one pending entry and at most one running Downloader, and
\* self._count was decremented for it no more often than it was incremented
\* (once for each Downloader created for it).
C12_RestartCountedOnce ==
  \A u \in hist.stopped :
    calls > MaxDmCalls =>
      /\ DictCount(tasks, u) <= 1
      /\ Cardinality({d \in Live : dls[d].url = u}) <= 1
      /\ SumFin(DlFor(u)) <= Cardinality(DlFor(u))

\* C13: when the upload loop has taken a pending job whose local path does not
\* exist, the record of that job carries a not-found error and has been sent
\* to the display.
C13_MissingPathRecorded ==
  (obj = "UploadWorker" /\ furl # "" /\ ~PathExists(furl)) =>
    /\ task.info = "not_found"
    /\ shown = [k \in {furl} |-> task]

\* C14: when the upload loop takes a pending job whose local path does not
\* exist, it skips the job: after that step the loop is not back at its head
\* with the same job still pending, so that a finite set of jobs is used up.
C14_MissingPathSkipped ==
  [][\A a \in Acts :
       (UpLoop(a) /\ tasks # <<>> /\ ~PathExists(tasks[1].key)) =>
         ~(pc'[a] = "body" /\ DictHas(tasks', tasks[1].key))]_vars

\* C15: a timeout or another exception raised by a backend call of the upload
\* loop (upload_file, upload_dir, set_passwd, set_desc) sets the error field of
\* the job's record, and the loop goes on to retire the job and take the next.
C15_UploadFaultContained ==
  [][\A a \in Acts : \A r \in {"timeout", "error"} :
       (UpFileReturn(a, r) \/ UpDirReturn(a, r) \/ UpPwdReturn(a, r) \/ UpDescReturn(a, r)) =>
         /\ task'.info \in {"timeout", "unknown"}
         /\ pc'[a] = "del"]_vars

\* C16: set_passwd and set_desc are in progress only after upload_file returned
\* SUCCESS for the job and only with the job's directive set.
C16_DirectivesOnlyAfterSuccess ==
  \A a \in Acts :
    /\ pc[a] = "io_pwd" => (loc[a].code = "ok" /\ task.set_pwd)
    /\ pc[a] = "io_desc" => (loc[a].code = "ok" /\ task.set_desc)

\* C16 witness: the upload of a job with both directives succeeded, set_passwd
\* was called and set_desc is in progress
C16_BothDirectivesApplied ==
  \E a \in Acts : pc[a] = "io_desc" /\ loc[a].code = "ok" /\ task.set_pwd /\ task.set_desc

\* the login calls the LoginLuncher has made on the backend
LoginCalls == out \cap {"call:login_by_cookie", "call:login"}

\* C17: when LoginLuncher.set_values is called a second time before the first
\* login has completed, the second call is answered with an "already running"
\* message and exactly one login call reaches the backend.
C17_SecondLoginRejected ==
  (obj = "LoginLuncher" /\ Quiet /\ calls = 2 /\ rejected = 1) =>
    /\ "code:busy" \in out
    /\ Cardinality(LoginCalls) = 1

\* the positions of run() at which a backend (network) call is in progress
IoPcs ==
  {"io", "io_item", "io_files", "io_dirs", "io_link", "io_file", "io_dir",
   "io_pwd", "io_desc", "io_cookie", "io_login", "io_mirror"}

\* C18: no worker or dispatcher holds its mutex while one of its backend calls
\* is in progress.
C18_NoLockAcrossIo ==
  \A a \in Acts : pc[a] \in IoPcs => mutex # a

\* rate is the per-mille share of now in total, rounded down
PerMille(total, now, rate) ==
  /\ rate * total <= 1000 * now
  /\ 1000 * now < (rate + 1) * total
  /\ rate \in 0..1000
  /\ rate = 1000 <=> now = total

C20_EmptyTotalIsComplete ==
  (sample.st = "done" /\ sample.total = 0) => (~sample.raised /\ sample.rate = 1000)

\* the record of u shows the transfer as complete while the backend is still
\* moving files for the Downloader working on u
EarlyComplete(u) ==
  /\ u \in DOMAIN dl_ing
  /\ dl_ing[u].rate = 1000
  /\ \E d \in Dls : dls[d].url = u /\ dls[d].st = "io" /\ ~XferDone(dls[d].x)

\* C21: over the progress updates of one run of a download job (here: the
\* only run, the caller having made a single call), the rate of its record
\* never decreases, and the record is at 1000 only when the transfer is
\* complete, for file and for folder urls alike.
C21_RateMonotone ==
  [][calls' <= 1 =>
       /\ \A u \in DOMAIN dl_ing \cap DOMAIN dl_ing' : dl_ing'[u].rate >= dl_ing[u].rate
       /\ \A u \in Urls : ~EarlyComplete(u)']_vars

\* the steps at which a backend call of a guarded single-action worker raises
\* TimeoutError and the worker has no further source to ask
TimedOut(a) ==
  \/ LogoutReturn(a, "timeout")
  \/ SetPwdReturn(a, "timeout")
  \/ RenameMkdirReturn(a, "timeout")
  \/ RenameItemReturn(a, "timeout")
  \/ ListFilesReturn(a, "timeout")
  \/ ListDirsReturn(a, "timeout")
  \/ MoreInfoReturn(a, "timeout")
  \/ MoreLinkReturn(a, "timeout")
  \/ CheckMirrorReturn(a, "timeout")

\* C22: when the backend call of a guarded single-action worker raises a
\* timeout, a message that tells of the network failure and asks to retry has
\* been emitted after that step, and the worker goes on to release its guard.
C22_TimeoutReported ==
  [][\A a \in Acts :
       TimedOut(a) =>
         /\ out' \cap {"msg:timeout", "infos:refused"} # {}
         /\ pc'[a] = "release"]_vars

\* C23: when the backend call of a single-action worker (the login and the
\* logout worker included) raises an exception other than a timeout, run()
\* emits a generic failure message and goes on to its end, releasing the guard
\* where there is one.
C23_FaultReported ==
  [][\A a \in Acts :
       ( \/ LogoutReturn(a, "error")
         \/ LoginCookieReturn(a, "error")
         \/ LoginReturn(a, "error")
         \/ SetPwdReturn(a, "error")
         \/ RenameMkdirReturn(a, "error")
         \/ RenameItemReturn(a, "error")
         \/ ListFilesReturn(a, "error")
         \/ ListDirsReturn(a, "error")
         \/ MoreInfoReturn(a, "error")
         \/ MoreLinkReturn(a, "error") ) =>
         /\ "msg:unknown_error" \in out'
         /\ pc'[a] = (IF obj = "LoginLuncher" THEN "off" ELSE "release")]_vars

\* C24: when a backend call returns a result code other than SUCCESS, the
\* operation is reported as failed and not as successful: after upload_file
\* the job's record does not say "uploaded", and after mkdir the failure
\* message is emitted and neither the success message nor the update signal.
C24_DeclinedIsFailure ==
  [][\A a \in Acts :
       /\ UpFileReturn(a, "declined") => task'.info # "uploaded"
       /\ RenameMkdirReturn(a, "declined") =>
            /\ "msg:mkdir_failed" \in out'
            /\ (out' \ out) \cap {"msg:mkdir_ok", "update"} = {}]_vars

\* C25: when the failure report of a Downloader (a result other than 0, a
\* timeout, another exception) is handled, the record of its key in
\* self._dl_ing gets the error as its info; and nothing but a call of the
\* caller makes a key pending or starts again the ended Downloader of a key
\* whose record carries an error.
C25_FailureRecordedNoRetry ==
  [][/\ \A d \in Dls :
          (DmSlot(d) /\ Head(dls[d].q).sig = "failed" /\ Head(dls[d].q).url \in DOMAIN dl_ing) =>
            dl_ing'[Head(dls[d].q).url].info = Head(dls[d].q).info
     /\ calls' = calls =>
          /\ \A u \in Urls : DictHas(tasks', u) => DictHas(tasks, u)
          /\ \A d \in Dls :
               ( /\ dls[d].st = "done"
                 /\ dls[d].url \in DOMAIN dl_ing
                 /\ dl_ing[dls[d].url].info # "none" ) => dls'[d].st = "done"]_vars

\* C25 witness: the Downloader of a key has ended by a timeout, its report is
\* handled and on the record, and the key is neither pending nor running
C25_FailedAndIdle ==
  \E u \in DOMAIN dl_ing :
    /\ dl_ing[u].info = "net"
    /\ ~DictHas(tasks, u)
    /\ DlFor(u) # {}
    /\ \A d \in DlFor(u) : dls[d].st = "done" /\ dls[d].q = <<>>

\* C26: the record of a download job leaves self._dl_ing only in a step of
\* del_task for its key: no completion, failure or stop of its Downloader, and
\* no other step, removes it.
C26_RecordRemovedByDelTask ==
  [][\A u \in DOMAIN dl_ing : u \notin DOMAIN dl_ing' => Dm_del_task(u)]_vars

\* C26 witness: the Downloader of a key was stopped, has ended and was dropped
\* by _add_thread, and the record of the key is still on display
C26_StoppedStillShown ==
  \E u \in DOMAIN dl_ing :
    /\ u \in hist.stopped
    /\ DlFor(u) # {}
    /\ \A d \in DlFor(u) : dls[d].st = "done" /\ dls[d].q = <<>> /\ dls[d].fin >= 1

\* C27: the failure of one file of a folder download is emitted on
\* folder_file_failed, and neither its emission nor its slot changes
\* self._dl_ing: the info of the folder job's record is not set by it.
C27_FileFailureKeepsRecord ==
  [][\A d \in Dls :
       /\ DlFileFailed(d) =>
            /\ dl_ing' = dl_ing
            /\ dls[d].wired =>
                 dls'[d].q = Append(dls[d].q, Sig("file_failed", dls[d].url, 0, "code"))
       /\ (DmSlot(d) /\ Head(dls[d].q).sig = "file_failed") => dl_ing' = dl_ing]_vars

\* C27 witness: a file of a folder download has failed while the download goes
\* on, the slot of folder_file_failed is next to run, and the record of the
\* folder job is on display without an error
C27_FileFailureDelivered ==
  \E d \in Dls :
    /\ dls[d].st = "io"
    /\ dls[d].q # <<>>
    /\ Head(dls[d].q).sig = "file_failed"
    /\ dls[d].url \in DOMAIN dl_ing
    /\ dl_ing[dls[d].url].info = "none"
    /\ GuiIdle

\* C28: once set_thread(n) has stored n, the dispatch loop starts a Downloader
\* only with fewer than n counted in flight before it (self._count, which
\* already counts the new one, is at most self._thread at the start), and
\* set_thread itself stops no Downloader.
C28_CeilingAfterSetThread ==
  [][/\ \A a \in Acts :
          (DmSetValues(a) /\ \E d \in Dls : ~isRunning(d) /\ dls'[d].st = "run") =>
            count <= thread
     /\ \A n \in Ceilings : Dm_set_thread(n) => dls' = dls]_vars

\* C29: stop_task for a key that has no Downloader in self.downloaders (still
\* pending, retired, or never submitted) raises nothing and leaves
\* self._tasks, self._dl_ing and self._count as they are.
C29_StopWithoutDownloader ==
  [][\A u \in Urls :
       (Dm_stop_task(u) /\ u \notin DOMAIN downloaders) =>
         /\ ~hist'.fault
         /\ tasks' = tasks /\ dl_ing' = dl_ing /\ count' = count]_vars

\* C30: when the finished notification of a Downloader is handled after later
\* Downloaders were created (and the loop does not write self._count in the
\* middle of the handler), _add_thread takes exactly one off self._count and
\* removes from self.downloaders the entry of that Downloader and no other.
C30_CompletionRetiresOwnWorker ==
  [][(DmFinishedWrite /\ gui.d < Len(dls) /\ gui.c = count) =>
       /\ count' = count - 1
       /\ \A u \in DOMAIN downloaders :
            u \in DOMAIN downloaders' <=> downloaders[u] # gui.d]_vars

\* C31: no update of self._count is lost: under every interleaving of the
\* loop's increments with the decrements of the completion handlers and with
\* the caller's add and delete calls, self._count equals the dispatches (the
\* Downloaders created, and the increment whose Downloader is about to be
\* created) minus the completions handled.
C31_NoLostUpdate ==
  obj = "DownloadManager" =>
    count = Len(dls) + Cardinality({a \in Acts : pc[a] = "pick"}) - SumFin(Dls)

\* C32: every step that changes a record of self._dl_ing (the dispatch that
\* marks it running, a progress tick, a stop, a restart, a failure) sends the
\* new self._dl_ing to the display with update.emit; del_task, which removes
\* a record, is left aside.
C32_SnapshotRepublished ==
  [][(dl_ing' # dl_ing /\ ~\E u \in Urls : Dm_del_task(u)) => shown' = dl_ing']_vars

\* C33: whenever the loop is between two jobs and every notification of every
\* Downloader is handled, self._count is not negative and equals the number
\* of Downloaders that are running.
C33_CountIsRunning ==
  (DmAtRest /\ \A d \in Dls : dls[d].q = <<>>) =>
    (count >= 0 /\ count = Cardinality(Live))

\* C34: after del_task for a key, the slots that handle the later progress,
\* failure and completion notifications of that key's Downloader raise
\* nothing and put no record back into self._dl_ing.
C34_DeletedKeyNotifications ==
  [][\A d \in Dls :
       ( /\ dls[d].url \in hist.deleted
         /\ DmSlot(d) \/ (DmFinishedWrite /\ gui.d = d) ) =>
         /\ hist'.fault = hist.fault
         /\ DOMAIN dl_ing' = DOMAIN dl_ing]_vars

\* C35: a guarded worker emits its "running in the background, retry later"
\* message only while an earlier invocation is inside the guarded branch of
\* run(); a get_dl_link on a worker at rest is not answered with it.
C35_BusyOnlyWhenInFlight ==
  [][\A a \in Acts :
       (RunCheck(a) /\ "msg:busy" \in out' /\ "msg:busy" \notin out) => InGuard # {}]_vars

\* C36: whenever the loop is between two jobs and every notification of every
\* Downloader is handled, a record of self._dl_ing (of a key never deleted)
\* has run = True only if a Downloader working on its key is running.
C36_RunFlagMeansRunning ==
  (DmAtRest /\ \A d \in Dls : dls[d].q = <<>>) =>
    \A u \in DOMAIN dl_ing \ hist.deleted :
      dl_ing[u].run => \E d \in Live : dls[d].url = u

\* C37: LoginLuncher.run calls login(username, password) only with a username
\* and a password that are not empty, whatever the cookie and the outcome of
\* login_by_cookie, and makes no such call after login_by_cookie returned
\* SUCCESS.
C37_NoLoginWithoutCredentials ==
  [][\A a \in Acts :
       /\ (obj = "LoginLuncher" /\ pc[a] # "io_login" /\ pc'[a] = "io_login") =>
            (fld.username # "" /\ fld.password # "")
       /\ LoginCookieReturn(a, "ok") => pc'[a] # "io_login"]_vars

====
